---- MODULE Spec2Model ----
(***************************************************************************)
(* Cache lifecycle engine of the KeepAlive component                       *)
(* (packages/core/src/components/KeepAlive/index.tsx).                      *)
(*                                                                         *)
(* The React state cell `cacheNodes` is the store.  Every setCacheNodes    *)
(* call is modelled by the updater it passes, applied to the latest store  *)
(* value in call order.  The layout effect that reacts to a change of the  *)
(* props activeCacheKey / children is the action Activate.  The commands   *)
(* of the imperative handle are the actions refresh, destroy, destroyAll   *)
(* and destroyOther; the callbacks they hand to macroTask wait in `tasks`  *)
(* and are run one at a time by RunTask.                                   *)
(*                                                                         *)
(* JavaScript values that the code tests for truthiness are kept tagged    *)
(* (undefined, string, array, number) so that `a || b`, `if (x)` and       *)
(* isNil / isArr behave as in the source, the empty string included.       *)
(* A RegExp is modelled by the set of keys its test() accepts (a pattern   *)
(* without the g or y flag, whose test() is stateless).                    *)
(*                                                                         *)
(* getCacheNodes returns the array `cacheNodes` of the latest render, which *)
(* is the state array itself.  `rendered` is that array, `snapshot` the    *)
(* array a reader obtained; when React re-renders after a state update     *)
(* depends on the root the host mounts, so it is a choice made at Init.    *)
(***************************************************************************)
EXTENDS Integers, Sequences, FiniteSets, TLC

\* ------------------------------------------------------------- bounds ---
\* largest value of the prop max (the smallest is -1)
MaxMax == 1
\* the clock reads whole seconds 0..MaxSec plus 0..MaxMs milliseconds
MaxSec == 1
MaxMs == 1
\* a step that would take a renderCount beyond this is not taken
MaxRenderCount == 1
\* deferred callbacks that may wait at the same time
MaxQueue == 1

\* ------------------------------------------------------ input domains ---
Keys == {"", "a", "b"}
Contents == {"x", "y"}

Undefined == [t |-> "undefined"]
Str(s) == [t |-> "string", v |-> s]
Arr(a) == [t |-> "array", v |-> a]
Num(n) == [t |-> "number", v |-> n]

\* values of the prop activeCacheKey and of the optional cacheKey arguments
KeyValues == {Undefined} \cup {Str(k) : k \in Keys}
DestroyArgs == {Undefined, Str(""), Str("a"), Arr(<<"b", "">>)}
DestroyOtherArgs == {Undefined, Str(""), Str("a")}

StrRule(s, e) == [match |-> Str(s), expire |-> e]
RegExpRule(accepted, e) == [match |-> [t |-> "regexp", v |-> accepted], expire |-> e]

\* values of the prop maxAliveTime: the default 0, a scalar, and rule lists
MaxAliveTimes ==
    { Num(0), Num(1),
      Arr(<<StrRule("a", 1), RegExpRule({"a", "b"}, 0)>>) }

\* ---------------------------------------------------------- utilities ---
isNil(x) == x.t = "undefined"

isArr(x) == x.t = "array"

isRegExp(x) == x.t = "regexp"

\* JavaScript truthiness of the tagged values
Truthy(x) ==
    CASE x.t = "undefined" -> FALSE
      [] x.t = "string" -> x.v # ""
      [] x.t = "number" -> x.v # 0
      [] OTHER -> TRUE

\* a || b
Or(a, b) == IF Truthy(a) THEN a ELSE b

\* Array.prototype.find as an index: the first of the indexes whose element
\* passes the test, 0 (undefined) if none does
Find(hits) == IF hits = {} THEN 0 ELSE CHOOSE i \in hits : \A j \in hits : i <= j

\* Array.prototype.includes over a sequence of tagged values or plain strings
Includes(s, x) == \E i \in 1..Len(s) : s[i] = x

\* mutant: splice(i, 2) removes the element after i as well
SpliceTwo(s, i) ==
    LET n == IF i < Len(s) THEN Len(s) - 2 ELSE Len(s) - 1 IN
    [j \in 1..n |-> IF j < i THEN s[j] ELSE s[j + 2]]

\* Array.prototype.splice(i, 1)
Splice(s, i) == [j \in 1..(Len(s) - 1) |-> IF j < i THEN s[j] ELSE s[j + 1]]

\* -------------------------------------------------------------- state ---
VARIABLES
    max,             \* prop max
    maxAliveTime,    \* prop maxAliveTime
    activeCacheKey,  \* prop activeCacheKey of the latest render
    cacheNodes,      \* the store: sequence of CacheNode records
    tasks,           \* callbacks handed to macroTask, not yet run (FIFO)
    now,             \* Date.now(), milliseconds
    error,           \* TRUE once an updater has thrown
    last,            \* history: the operation that produced this state
    prevCacheNodes,  \* history: the store that operation started from
    concurrent,      \* host: TRUE if React re-renders in a later task (concurrent
                     \* root), FALSE if a state update re-renders at once
    rendered,        \* the array `cacheNodes` of the latest render's closure
    pending,         \* TRUE while state updates wait for a re-render
    snapshot         \* the array a reader got from getCacheNodes

vars == <<max, maxAliveTime, activeCacheKey, cacheNodes, tasks, now, error, last, prevCacheNodes,
          concurrent, rendered, pending, snapshot>>

\* what a render and a reader hold
view == <<rendered, pending, snapshot>>

props == <<max, maxAliveTime>>

CacheNode(k, c, t, r) == [cacheKey |-> k, ele |-> c, lastActiveTime |-> t, renderCount |-> r]

KeysOf(nodes) == {nodes[i].cacheKey : i \in 1..Len(nodes)}

\* no snapshot has been handed out; once one has, `taken` is the sequence it
\* had when getCacheNodes returned it, `nodes` the sequence it has now, and
\* `live` tells whether it is the very array that is the current state
NoSnapshot == [held |-> FALSE, taken |-> <<>>, nodes |-> <<>>, live |-> FALSE]

\* the props and the kind of React root the component is mounted under
Configured(maxes, ttls, modes) ==
    /\ max \in maxes
    /\ maxAliveTime \in ttls
    /\ concurrent \in modes

\* the state after the first render: useState([]), nothing scheduled
Mounted ==
    /\ activeCacheKey = Undefined
    /\ cacheNodes = <<>>
    /\ tasks = <<>>
    /\ now = 0
    /\ error = FALSE
    /\ last = [op |-> "init"]
    /\ prevCacheNodes = <<>>
    /\ rendered = <<>>
    /\ pending = FALSE
    /\ snapshot = NoSnapshot

\* every configuration of the props, under a root that re-renders at once;
\* the store does not depend on when React re-renders
Init == Configured(-1..MaxMax, MaxAliveTimes, {FALSE}) /\ Mounted

\* ------------------------------------------------ expiration decision ---
\* maxAliveTime.find(item => isRegExp(item.match) ? item.match.test(key) : item.match === key)
RuleMatches(rule, key) ==
    IF isRegExp(rule.match) THEN key \in rule.match.v ELSE rule.match = Str(key)

\* mutant: findLast, the last matching rule wins
FindConfigLast(rules, key) ==
    LET hits == {i \in 1..Len(rules) : RuleMatches(rules[i], key)} IN
    IF hits = {} THEN 0 ELSE CHOOSE i \in hits : \A j \in hits : j <= i

FindConfig(rules, key) ==
    Find({i \in 1..Len(rules) : RuleMatches(rules[i], key)})

\* mutant: an entry expires already when its duration has just elapsed
ExpiredAtEquality(prev, expire, lastActiveTime) == prev + expire * 1000 <= lastActiveTime

\* prev + expire * 1000 < lastActiveTime
Expired(prev, expire, lastActiveTime) == prev + expire * 1000 < lastActiveTime

\* mutant: the test `if (maxAliveTime)` is missing
needUpdateUnguarded(item, key, ttl, lastActiveTime) ==
    LET prev == item.lastActiveTime IN
    IF isArr(ttl)
    THEN LET config == FindConfig(ttl.v, key) IN
         IF config # 0
         THEN Expired(prev, ttl.v[config].expire, lastActiveTime)
         ELSE FALSE
    ELSE Expired(prev, ttl.v, lastActiveTime)

\* needUpdate of the reactivation branch
needUpdate(item, key, ttl, lastActiveTime) ==
    IF Truthy(ttl)
    THEN LET prev == item.lastActiveTime IN
         IF isArr(ttl)
         THEN LET config == FindConfig(ttl.v, key) IN
              IF config # 0
              THEN Expired(prev, ttl.v[config].expire, lastActiveTime)
              ELSE FALSE
         ELSE Expired(prev, ttl.v, lastActiveTime)
    ELSE FALSE

\* ------------------------------------------------- activation updater ---
\* mutant: the lookup compares the wrong field and never finds the key
FindCacheNodeWrongField(nodes, key) ==
    Find({i \in 1..Len(nodes) : nodes[i].ele = key})

\* prevCacheNodes.find(item => item.cacheKey === activeCacheKey), as an index
FindCacheNode(nodes, key) ==
    Find({i \in 1..Len(nodes) : nodes[i].cacheKey = key})

\* mutant: a reactivation that finds the entry not expired resets its renderCount
ReactivateResets(nodes, key, children, ttl, lastActiveTime) ==
    [i \in 1..Len(nodes) |->
        IF nodes[i].cacheKey = key
        THEN [nodes[i] EXCEPT
                !.ele = children,
                !.lastActiveTime = lastActiveTime,
                !.renderCount = IF needUpdate(nodes[i], key, ttl, lastActiveTime)
                                THEN nodes[i].renderCount + 1
                                ELSE 0]
        ELSE nodes[i]]

\* the map of the reactivation branch
Reactivate(nodes, key, children, ttl, lastActiveTime) ==
    [i \in 1..Len(nodes) |->
        IF nodes[i].cacheKey = key
        THEN [nodes[i] EXCEPT
                !.ele = children,
                !.lastActiveTime = lastActiveTime,
                !.renderCount = IF needUpdate(nodes[i], key, ttl, lastActiveTime)
                                THEN nodes[i].renderCount + 1
                                ELSE nodes[i].renderCount]
        ELSE nodes[i]]

\* mutant: on equal times the reduce callback keeps the earlier entry
ReduceStepKeepsEarlier(nodes, prev, cur) ==
    IF nodes[prev].lastActiveTime <= nodes[cur].lastActiveTime THEN prev ELSE cur

\* one step of the reduce callback: prev.lastActiveTime < cur.lastActiveTime ? prev : cur
ReduceStep(nodes, prev, cur) ==
    IF nodes[prev].lastActiveTime < nodes[cur].lastActiveTime THEN prev ELSE cur

\* prevCacheNodes.reduce(...) without an initial value, on a non-empty array;
\* the result is the index of the node object that indexOf(node) then finds
RECURSIVE ReduceFrom(_, _, _)
ReduceFrom(nodes, prev, cur) ==
    IF cur > Len(nodes) THEN prev
    ELSE ReduceFrom(nodes, ReduceStep(nodes, prev, cur), cur + 1)

Reduce(nodes) == ReduceFrom(nodes, 1, 2)

\* mutant: the eviction threshold is one too high
OverflowsLate(nodes, m) == Len(nodes) > m + 1

\* the eviction test of the insert branch
Overflows(nodes, m) == Len(nodes) > m

\* the insert branch; reduce of an empty array without an initial value throws.
\* splice works on the array prevCacheNodes itself: `prev` is what that array
\* holds once the updater has returned, `nodes` the new array it returns
Insert(nodes, key, children, m, lastActiveTime) ==
    IF Overflows(nodes, m) /\ nodes = <<>>
    THEN [threw |-> TRUE, nodes |-> nodes, prev |-> nodes]
    ELSE LET spliced == IF Overflows(nodes, m) THEN Splice(nodes, Reduce(nodes)) ELSE nodes IN
         [threw |-> FALSE,
          nodes |-> Append(spliced, CacheNode(key, children, lastActiveTime, 0)),
          prev |-> spliced]

\* the updater passed to setCacheNodes by the layout effect
ActivationUpdater(nodes, key, children, m, ttl, lastActiveTime) ==
    IF FindCacheNode(nodes, key) # 0
    THEN [threw |-> FALSE, nodes |-> Reactivate(nodes, key, children, ttl, lastActiveTime),
          prev |-> nodes]
    ELSE Insert(nodes, key, children, m, lastActiveTime)

\* ----------------------------------------------------- other updaters ---
\* the updater of refresh
RefreshUpdater(nodes, targetCacheKey) ==
    [i \in 1..Len(nodes) |->
        IF Str(nodes[i].cacheKey) = targetCacheKey
        THEN [nodes[i] EXCEPT !.renderCount = nodes[i].renderCount + 1]
        ELSE nodes[i]]

\* the updater of destroy: cacheNodes.filter(item => !cacheKeys.includes(item.cacheKey))
DestroyUpdater(nodes, cacheKeys) ==
    LET Keep(item) == ~Includes(cacheKeys, Str(item.cacheKey)) IN SelectSeq(nodes, Keep)

\* the updater of destroyOther: cacheNodes.filter(item => item.cacheKey === targetCacheKey)
DestroyOtherUpdater(nodes, targetCacheKey) ==
    LET Keep(item) == Str(item.cacheKey) = targetCacheKey IN SelectSeq(nodes, Keep)

\* mutant: destroyAll spares the first entry
DestroyAllSparesFirst(nodes) == IF nodes = <<>> THEN <<>> ELSE <<nodes[1]>>

\* the value destroyAll installs: setCacheNodes([])
DestroyAllUpdater(nodes) == <<>>

\* const targetCacheKey = cacheKey || activeCacheKey
TargetCacheKey(cacheKey, active) == Or(cacheKey, active)

\* const cacheKeys = isArr(targetCacheKey) ? targetCacheKey : [targetCacheKey]
CacheKeys(target) ==
    IF isArr(target) THEN [i \in 1..Len(target.v) |-> Str(target.v[i])] ELSE <<target>>

\* macroTask(fn): the callback joins the task queue behind those already waiting
macroTask(queue, fn) == Append(queue, fn)

RenderCountsBounded(nodes) == \A i \in 1..Len(nodes) : nodes[i].renderCount <= MaxRenderCount

\* ------------------------------------------------------------ actions ---
\* setCacheNodes: the updater has run on the current state array, which now
\* holds `prev`, and returned the new array `next`.  The array of the latest
\* render and a snapshot taken from it are that same previous array until a
\* re-render; under a concurrent root the re-render comes in a later task.
setCacheNodes(prev, next) ==
    /\ cacheNodes' = next
    /\ rendered' = IF concurrent THEN (IF pending THEN rendered ELSE prev) ELSE next
    /\ pending' = concurrent
    /\ snapshot' = IF snapshot.live
                   THEN [snapshot EXCEPT !.nodes = prev, !.live = FALSE]
                   ELSE snapshot

\* time passes: one millisecond, or one second
Tick ==
    /\ \E d \in {1, 1000} :
          /\ IF d = 1 THEN now % 1000 < MaxMs ELSE now \div 1000 < MaxSec
          /\ now' = now + d
    /\ last' = [op |-> "tick"]
    /\ prevCacheNodes' = cacheNodes
    /\ UNCHANGED <<props, concurrent, activeCacheKey, cacheNodes, tasks, error, view>>

\* the props activeCacheKey / children change and the layout effect runs
Activate(supplied) ==
    /\ ~error
    /\ \E key \in KeyValues, children \in supplied :
          /\ activeCacheKey' = key
          /\ last' = [op |-> "activate", key |-> key, children |-> children]
          /\ IF isNil(key)
             THEN UNCHANGED <<cacheNodes, error, view>>
             ELSE LET r == ActivationUpdater(cacheNodes, key.v, children, max, maxAliveTime, now) IN
                  /\ RenderCountsBounded(r.nodes)
                  /\ error' = r.threw
                  /\ IF r.threw
                     THEN UNCHANGED <<cacheNodes, view>>
                     ELSE setCacheNodes(r.prev, r.nodes)
    /\ prevCacheNodes' = cacheNodes
    /\ UNCHANGED <<props, concurrent, tasks, now>>

refresh ==
    /\ ~error
    /\ \E cacheKey \in KeyValues :
          LET nodes == RefreshUpdater(cacheNodes, TargetCacheKey(cacheKey, activeCacheKey)) IN
          /\ RenderCountsBounded(nodes)
          /\ setCacheNodes(cacheNodes, nodes)
          /\ last' = [op |-> "refresh", cacheKey |-> cacheKey]
    /\ prevCacheNodes' = cacheNodes
    /\ UNCHANGED <<props, concurrent, activeCacheKey, tasks, now, error>>

destroy ==
    /\ ~error
    /\ Len(tasks) < MaxQueue
    /\ \E cacheKey \in DestroyArgs :
          /\ tasks' = macroTask(tasks, [op |-> "destroy",
                                        cacheKeys |-> CacheKeys(TargetCacheKey(cacheKey, activeCacheKey)),
                                        cacheKey |-> cacheKey,
                                        active |-> activeCacheKey])
          /\ last' = [op |-> "destroy", cacheKey |-> cacheKey]
    /\ prevCacheNodes' = cacheNodes
    /\ UNCHANGED <<props, concurrent, activeCacheKey, cacheNodes, now, error, view>>

\* mutant: destroyAll empties the store within the call
destroyAllWithinCall ==
    /\ ~error
    /\ Len(tasks) < MaxQueue
    /\ setCacheNodes(cacheNodes, DestroyAllUpdater(cacheNodes))
    /\ last' = [op |-> "destroyAll"]
    /\ prevCacheNodes' = cacheNodes
    /\ UNCHANGED <<props, concurrent, activeCacheKey, tasks, now, error>>

destroyAll ==
    /\ ~error
    /\ Len(tasks) < MaxQueue
    /\ tasks' = macroTask(tasks, [op |-> "destroyAll"])
    /\ last' = [op |-> "destroyAll"]
    /\ prevCacheNodes' = cacheNodes
    /\ UNCHANGED <<props, concurrent, activeCacheKey, cacheNodes, now, error, view>>

destroyOther ==
    /\ ~error
    /\ Len(tasks) < MaxQueue
    /\ \E cacheKey \in DestroyOtherArgs :
          /\ tasks' = macroTask(tasks, [op |-> "destroyOther",
                                        targetCacheKey |-> TargetCacheKey(cacheKey, activeCacheKey),
                                        cacheKey |-> cacheKey,
                                        active |-> activeCacheKey])
          /\ last' = [op |-> "destroyOther", cacheKey |-> cacheKey]
    /\ prevCacheNodes' = cacheNodes
    /\ UNCHANGED <<props, concurrent, activeCacheKey, cacheNodes, now, error, view>>

\* the store a deferred callback installs; the fields cacheKey and active of
\* a task only record the call (its argument, the active key at the call)
TaskUpdater(task, nodes) ==
    CASE task.op = "destroy" -> DestroyUpdater(nodes, task.cacheKeys)
      [] task.op = "destroyAll" -> DestroyAllUpdater(nodes)
      [] task.op = "destroyOther" -> DestroyOtherUpdater(nodes, task.targetCacheKey)

\* mutant: the callback reads the active key when it runs
RunTaskReadsActiveKey ==
    /\ tasks # <<>>
    /\ LET task == Head(tasks)
           target == IF task.op = "destroyAll" THEN Undefined
                     ELSE TargetCacheKey(task.cacheKey, activeCacheKey)
       IN  setCacheNodes(cacheNodes,
              CASE task.op = "destroy" -> DestroyUpdater(cacheNodes, CacheKeys(target))
                [] task.op = "destroyAll" -> DestroyAllUpdater(cacheNodes)
                [] task.op = "destroyOther" -> DestroyOtherUpdater(cacheNodes, target))
    /\ tasks' = Tail(tasks)
    /\ last' = [op |-> "task", task |-> Head(tasks)]
    /\ prevCacheNodes' = cacheNodes
    /\ UNCHANGED <<props, concurrent, activeCacheKey, now, error>>

\* the task queue runs the oldest waiting callback: setCacheNodes, then
\* resolve(); the state right after this step is the one the caller that
\* awaits the completion signal continues in
RunTask ==
    /\ tasks # <<>>
    /\ setCacheNodes(cacheNodes, TaskUpdater(Head(tasks), cacheNodes))
    /\ tasks' = Tail(tasks)
    /\ last' = [op |-> "task", task |-> Head(tasks)]
    /\ prevCacheNodes' = cacheNodes
    /\ UNCHANGED <<props, concurrent, activeCacheKey, now, error>>

\* React re-renders the component: the new closure reads the current state
Render ==
    /\ pending
    /\ rendered' = cacheNodes
    /\ pending' = FALSE
    /\ last' = [op |-> "render"]
    /\ prevCacheNodes' = cacheNodes
    /\ UNCHANGED <<props, concurrent, activeCacheKey, cacheNodes, tasks, now, error, snapshot>>

\* a reader calls getCacheNodes of the latest render and keeps the array
getCacheNodes ==
    /\ snapshot' = [held |-> TRUE, taken |-> rendered, nodes |-> rendered, live |-> ~pending]
    /\ last' = [op |-> "getCacheNodes"]
    /\ prevCacheNodes' = cacheNodes
    /\ UNCHANGED <<props, concurrent, activeCacheKey, cacheNodes, tasks, now, error, rendered, pending>>

\* the engine driven by activations and refresh only
ActivationNext ==
    \/ Tick
    \/ Activate(Contents)
    \/ refresh

ActivationSpec == Init /\ [][ActivationNext]_vars

\* the engine with the deferred commands; the host supplies one content value
LifecycleNext ==
    \/ Tick
    \/ Activate({"x"})
    \/ refresh
    \/ destroy
    \/ destroyAll
    \/ destroyOther
    \/ RunTask

LifecycleSpec == Init /\ [][LifecycleNext]_vars

\* the task queue is fair: a waiting callback is eventually run
FairLifecycleSpec == LifecycleSpec /\ WF_vars(RunTask)

\* the engine without TTL under either kind of root, with a reader
RenderInit == Configured(-1..MaxMax, {Num(0)}, BOOLEAN) /\ Mounted

\* activations, the deferred commands, re-renders and reads of the store
RenderNext ==
    \/ Activate({"x"})
    \/ destroy
    \/ destroyAll
    \/ destroyOther
    \/ RunTask
    \/ Render
    \/ getCacheNodes

RenderSpec == RenderInit /\ [][RenderNext]_vars

\* ------------------------------------------------------------- claims ---
\* the key of the last activation, and whether it was in the store before it
ActivatedKey == last.key.v

Inserted == last.op = "activate" /\ ~isNil(last.key) /\ ActivatedKey \notin KeysOf(prevCacheNodes)

Reactivated == last.op = "activate" /\ ~isNil(last.key) /\ ActivatedKey \in KeysOf(prevCacheNodes)

\* C1: in every reachable state no two entries of the store have the same
\* cacheKey, whatever activations, commands and deferred tasks have run.
C1_UniqueCacheKeys ==
    \A i, j \in 1..Len(cacheNodes) :
        i # j => cacheNodes[i].cacheKey # cacheNodes[j].cacheKey

\* C1 witness: a key held by a two-entry store has just been activated again,
\* while a deferred command is still waiting.
C1_Witness ==
    /\ Reactivated
    /\ Len(prevCacheNodes) = 2
    /\ Len(cacheNodes) = 2
    /\ tasks # <<>>

\* C2: with max = N >= 0 the store never holds more than N + 1 entries.
C2_SizeAtMostMaxPlusOne == max >= 0 => Len(cacheNodes) <= max + 1

\* C2 witness: a new key was inserted into a store that already held max + 1
\* entries, and the store holds max + 1 entries again.
C2_Witness ==
    /\ Inserted
    /\ max = 1
    /\ Len(prevCacheNodes) = max + 1
    /\ Len(cacheNodes) = max + 1

ActivatedAt == {i \in 1..Len(prevCacheNodes) : prevCacheNodes[i].cacheKey = ActivatedKey}

\* the store after a reactivation that adds inc to the renderCount of the
\* activated entry, replaces its content and time, and keeps the rest
ReactivatedWith(inc) ==
    [i \in 1..Len(prevCacheNodes) |->
        IF i \in ActivatedAt
        THEN CacheNode(ActivatedKey, last.children, now, prevCacheNodes[i].renderCount + inc)
        ELSE prevCacheNodes[i]]

\* C4: activating a key that is not in the store removes nothing when the
\* store holds at most max entries, and otherwise removes exactly one entry, one
\* whose lastActiveTime is minimal; the others are kept and the new entry
\* {cacheKey, content, now, 0} is appended.
C4_InsertEvictsOneLeastRecent ==
    Inserted =>
        LET entry == CacheNode(ActivatedKey, last.children, now, 0) IN
        IF Len(prevCacheNodes) <= max
        THEN cacheNodes = Append(prevCacheNodes, entry)
        ELSE \E i \in 1..Len(prevCacheNodes) :
                /\ \A j \in 1..Len(prevCacheNodes) :
                      prevCacheNodes[i].lastActiveTime <= prevCacheNodes[j].lastActiveTime
                /\ cacheNodes =
                      Append([j \in 1..(Len(prevCacheNodes) - 1) |->
                                 prevCacheNodes[IF j < i THEN j ELSE j + 1]],
                             entry)

\* C5: with no TTL, reactivating a stored key keeps its renderCount, sets its
\* content and lastActiveTime, and keeps every other entry and the length.
C5_ReactivationWithoutTTL ==
    (Reactivated /\ ~Truthy(maxAliveTime)) =>
        cacheNodes = ReactivatedWith(0)

\* C5 witness: with maxAliveTime 0 an entry refreshed once (renderCount 1) is
\* reactivated later, with other content, in a two-entry store.
C5_Witness ==
    /\ Reactivated
    /\ ~Truthy(maxAliveTime)
    /\ Len(prevCacheNodes) = 2
    /\ \E i \in ActivatedAt :
          /\ prevCacheNodes[i].renderCount = 1
          /\ prevCacheNodes[i].lastActiveTime < now
          /\ prevCacheNodes[i].ele # last.children
          /\ cacheNodes[i].renderCount = 1

\* C6: with a scalar TTL d > 0, reactivation adds 1 to renderCount iff the
\* entry's previous lastActiveTime + d * 1000 < now (strictly), else 0; content
\* and lastActiveTime are replaced in both cases.
C6_ScalarTTL ==
    (Reactivated /\ maxAliveTime.t = "number" /\ maxAliveTime.v > 0) =>
        \A i \in ActivatedAt :
            cacheNodes = ReactivatedWith(
                IF prevCacheNodes[i].lastActiveTime + maxAliveTime.v * 1000 < now THEN 1 ELSE 0)

\* C6 witness: d = 1; an entry last active at 1 ms (not at 0) is reactivated at
\* 1001 ms, exactly d later, and its renderCount stays.
C6_Witness ==
    /\ Reactivated
    /\ maxAliveTime = Num(1)
    /\ now = 1001
    /\ \E i \in ActivatedAt :
          /\ prevCacheNodes[i].lastActiveTime = 1
          /\ cacheNodes[i].renderCount = prevCacheNodes[i].renderCount
          /\ cacheNodes[i].lastActiveTime = 1001

\* the rules of the list that match the activated key
MatchingRules == {r \in 1..Len(maxAliveTime.v) : RuleMatches(maxAliveTime.v[r], ActivatedKey)}

\* C7: with a rule list, reactivation decides by the first matching rule alone
\* (renderCount + 1 iff previous lastActiveTime + expire * 1000 < now for that
\* rule), whatever later rules match; with no matching rule renderCount stays.
C7_FirstMatchingRule ==
    (Reactivated /\ isArr(maxAliveTime)) =>
        /\ MatchingRules = {} => cacheNodes = ReactivatedWith(0)
        /\ \A r \in MatchingRules :
              ((\A q \in MatchingRules : r <= q) /\ maxAliveTime.v[r].expire > 0) =>
                 \A i \in ActivatedAt :
                     cacheNodes = ReactivatedWith(
                         IF prevCacheNodes[i].lastActiveTime
                              + maxAliveTime.v[r].expire * 1000 < now
                         THEN 1 ELSE 0)

\* C7 witness: two rules with different expire match the key; time has passed,
\* the first rule's duration has not elapsed, and renderCount stays.
C7_Witness ==
    /\ Reactivated
    /\ isArr(maxAliveTime)
    /\ \E r, q \in MatchingRules : r < q /\ maxAliveTime.v[r].expire # maxAliveTime.v[q].expire
    /\ \E i \in ActivatedAt :
          /\ prevCacheNodes[i].lastActiveTime < now
          /\ cacheNodes[i].renderCount = prevCacheNodes[i].renderCount

\* the duration that applies to the activated key: the scalar, or the expire of
\* the first matching rule; -1 when no rule matches
ApplicableDuration ==
    IF isArr(maxAliveTime)
    THEN IF MatchingRules = {} THEN -1
         ELSE maxAliveTime.v[CHOOSE r \in MatchingRules : \A q \in MatchingRules : r <= q].expire
    ELSE maxAliveTime.v

\* C8: when the duration that applies to the key is 0 (scalar 0, or first
\* matching rule with expire 0), reactivation never increments renderCount.
C8_ZeroDurationNeverExpires ==
    (Reactivated /\ ApplicableDuration = 0) =>
        \A i \in ActivatedAt : cacheNodes[i].renderCount = prevCacheNodes[i].renderCount

\* C9: refresh(k) adds 1 to the renderCount of the entry with key k and changes
\* nothing else; with k absent from the store the store is unchanged; without
\* an argument the target is the active key.
C9_RefreshIncrementsOnlyTarget ==
    last.op = "refresh" =>
        LET target == IF isNil(last.cacheKey) THEN activeCacheKey ELSE last.cacheKey IN
        cacheNodes =
            [i \in 1..Len(prevCacheNodes) |->
                IF Str(prevCacheNodes[i].cacheKey) = target
                THEN [prevCacheNodes[i] EXCEPT !.renderCount = @ + 1]
                ELSE prevCacheNodes[i]]

\* the keys a destroy call names: its argument (a key or a list of keys), or
\* the key active at the call when it has no argument
DestroyTargets(task) ==
    IF isNil(task.cacheKey) THEN {task.cacheKeys[1]}
    ELSE IF isArr(task.cacheKey)
         THEN {Str(task.cacheKey.v[n]) : n \in 1..Len(task.cacheKey.v)}
         ELSE {task.cacheKey}

\* C10: right after the deferred task of destroy(keys) has run, the store holds
\* none of the target keys and every entry with another key that was there
\* just before, unchanged and in order.
C10_DestroyRemovesExactlyTargets ==
    (last.op = "task" /\ last.task.op = "destroy") =>
        LET Keep(item) == Str(item.cacheKey) \notin DestroyTargets(last.task) IN
        cacheNodes = SelectSeq(prevCacheNodes, Keep)

\* the key a destroyOther call names: its argument, or the key active at the
\* call when it has no argument
DestroyOtherTarget(task) ==
    IF isNil(task.cacheKey) THEN task.active ELSE task.cacheKey

\* C11: right after the deferred task of destroyOther(k) has run, the store is
\* exactly the entry of k as it was just before the task (if k was present),
\* and empty if k was absent.
C11_DestroyOtherKeepsOnlyTarget ==
    (last.op = "task" /\ last.task.op = "destroyOther") =>
        LET Keep(item) == Str(item.cacheKey) = DestroyOtherTarget(last.task) IN
        cacheNodes = SelectSeq(prevCacheNodes, Keep)

\* C12: a call of destroyAll is followed by a state right after its task, and
\* in every state right after a destroyAll task the store is empty, whatever
\* the store was when the task ran.
C12_DestroyAllEmptiesStore ==
    /\ [](last.op = "task" /\ last.task.op = "destroyAll" => cacheNodes = <<>>)
    /\ (last.op = "destroyAll") ~>
           (last.op = "task" /\ last.task.op = "destroyAll" /\ cacheNodes = <<>>)

\* C12 witness: the destroyAll task has just emptied a store of two entries,
\* the activated key among them.
C12_Witness ==
    /\ last.op = "task"
    /\ last.task.op = "destroyAll"
    /\ Len(prevCacheNodes) = 2
    /\ ~isNil(activeCacheKey)
    /\ activeCacheKey.v \in KeysOf(prevCacheNodes)
    /\ cacheNodes = <<>>

\* C13: in the state right after a call of destroy, destroyAll or destroyOther
\* the store is the store of before the call, and the removal waits in the
\* task queue.
C13_CallLeavesStoreUnchanged ==
    last.op \in {"destroy", "destroyAll", "destroyOther"} =>
        /\ cacheNodes = prevCacheNodes
        /\ tasks # <<>>
        /\ tasks[Len(tasks)].op = last.op

\* C13 witness: destroy("a") has just been called on a store that holds "a",
\* and "a" is still there.
C13_Witness ==
    /\ last.op = "destroy"
    /\ last.cacheKey = Str("a")
    /\ "a" \in KeysOf(cacheNodes)
    /\ Len(tasks) = 1

\* C15: no step of the engine fails (throws), for every max, every TTL
\* configuration and every reachable store, the empty one included.
C15_NoOperationFails == error = FALSE

\* C16: across every step, an entry that stays in the store keeps its
\* renderCount or has it raised by exactly 1; it never decreases.
C16_RenderCountStep ==
    \A i \in 1..Len(prevCacheNodes), j \in 1..Len(cacheNodes) :
        prevCacheNodes[i].cacheKey = cacheNodes[j].cacheKey =>
            cacheNodes[j].renderCount - prevCacheNodes[i].renderCount \in {0, 1}

\* C16 witness: an entry refreshed before (renderCount 1) has just been
\* reactivated and kept its renderCount, next to another entry.
C16_Witness ==
    /\ Reactivated
    /\ Len(cacheNodes) = 2
    /\ \E i \in ActivatedAt :
          /\ prevCacheNodes[i].renderCount = 1
          /\ cacheNodes[i].renderCount = 1

\* the last activation inserted a key and evicted an entry to make room
Evicted == Inserted /\ ~error /\ Len(prevCacheNodes) > max

\* the entries of the store before the last step whose lastActiveTime is minimal
LeastRecent ==
    {i \in 1..Len(prevCacheNodes) :
        \A j \in 1..Len(prevCacheNodes) :
            prevCacheNodes[i].lastActiveTime <= prevCacheNodes[j].lastActiveTime}

\* the store after an insertion that evicted the entry at index i
InsertedEvicting(i) ==
    Append([j \in 1..(Len(prevCacheNodes) - 1) |-> prevCacheNodes[IF j < i THEN j ELSE j + 1]],
           CacheNode(ActivatedKey, last.children, now, 0))

C20_NoKeyMeansActiveAtCall ==
    (last.op = "task" /\ last.task.op \in {"destroy", "destroyOther"} /\ isNil(last.task.cacheKey)) =>
        LET Named(item) == Str(item.cacheKey) = last.task.active
            Other(item) == ~Named(item)
        IN  IF last.task.op = "destroy"
            THEN cacheNodes = SelectSeq(prevCacheNodes, Other)
            ELSE cacheNodes = SelectSeq(prevCacheNodes, Named)

\* C20 witness: destroy() was called while "a" was active, "b" was activated
\* before the task ran, and the task removed "a" and kept "b".
C20_Witness ==
    /\ last.op = "task"
    /\ last.task.op = "destroy"
    /\ isNil(last.task.cacheKey)
    /\ last.task.active = Str("a")
    /\ activeCacheKey = Str("b")
    /\ KeysOf(prevCacheNodes) = {"a", "b"}
    /\ KeysOf(cacheNodes) = {"b"}

\* whether the call behind a task names the entry with key k for removal
ToRemove(task, k) ==
    CASE task.op = "destroy" -> Str(k) \in DestroyTargets(task)
      [] task.op = "destroyAll" -> TRUE
      [] task.op = "destroyOther" -> Str(k) # DestroyOtherTarget(task)

\* the keys of the entries of an array that the call behind a task names
Remaining(task, nodes) == {k \in KeysOf(nodes) : ToRemove(task, k)}

\* C14: in the state where the completion signal of a destructive command is
\* resolved, neither the store nor the array getCacheNodes returns holds an
\* entry the command was to remove.
C14_ResolvedAfterRemoval ==
    last.op = "task" =>
        /\ Remaining(last.task, cacheNodes) = {}
        /\ Remaining(last.task, rendered) = {}

\* C18: a snapshot returned by getCacheNodes keeps the sequence of entries it
\* had when it was returned, whatever steps follow.
C18_SnapshotImmutable == snapshot.held => snapshot.nodes = snapshot.taken

\* C19: a deferred destructive command is applied to the store as it is when
\* its task runs: right after the task the store is the store of just before
\* the task without the entries the call named, entries inserted since the
\* call included.
C19_AppliedWhenTaskRuns ==
    last.op = "task" =>
        LET Keep(item) == ~ToRemove(last.task, item.cacheKey) IN
        cacheNodes = SelectSeq(prevCacheNodes, Keep)

====
